---- MODULE Spec2Model ----
(***************************************************************************)
(* A state-machine model of whylogs' Logger (src/whylogs/app/logger.py):   *)
(* the segmented, time-rotating profile cache, its rotation/flush protocol *)
(* and its ingestion entry points.                                         *)
(*                                                                         *)
(* Python values are represented as follows.                               *)
(*   None / x          the empty tuple << >> / the one-tuple <<x>>         *)
(*   str               the sequence of its characters ("us" = <<"u","s">>) *)
(*   feature names     TLA+ strings, ordered by KeyOrder                   *)
(*   list, tuple       sequences                                           *)
(*   dict (row)        a record column |-> value                           *)
(*   DataFrame         the sequence of its rows                            *)
(*   DatasetProfile    [set, ts, tag, obs]: the ProfileSet it was created  *)
(*                     in (ghost), dataset_timestamp, the "segment" tag    *)
(*                     and the tables tracked so far, in order             *)
(***************************************************************************)
EXTENDS Integers, Sequences, FiniteSets, TLC

VARIABLES
    lg,         \* the Logger object's fields
    written,    \* every Writer.write call the writers have received, in order
    now,        \* the wall clock, in epoch seconds
    res,        \* outcome of the last call on the Logger: return value, exception
    hist,       \* ghost bookkeeping: number of calls made, ProfileSets created, ...
    th          \* the threads inside a call on the Logger, when calls overlap

vars == <<lg, written, now, res, hist, th>>

(***************************** bounds **************************************)
\* number of calls made on the Logger in one behaviour
MaxCalls == 3
\* last clock value
MaxTime == 3

(***************************** Python values *******************************)
None == << >>
Some(x) == <<x>>
IsNone(o) == o = << >>
The(o) == o[1]

US == <<"u", "s">>
EU == <<"e", "u">>
PP == <<"p">>

\* Python's order on the strings that occur as column values
ValueOrder == <<EU, PP, US>>
\* Python's order on the feature names
KeyOrder == <<"a", "b">>

RankIn(order, x) == CHOOSE i \in 1..Len(order) : order[i] = x

\* x evaluated once and handed to F: a statement's result used by the next
With(x, F(_)) == CHOOSE y \in { F(v) : v \in {x} } : TRUE

Last(s) == s[Len(s)]
ButLast(s) == SubSeq(s, 1, Len(s) - 1)

RECURSIVE SelectRows(_, _, _)
\* the rows of df whose values in the columns keys are the tuple label
SelectRows(df, keys, label) ==
    IF df = << >> THEN << >>
    ELSE LET r == Head(df)
             rest == SelectRows(Tail(df), keys, label)
         IN IF \A i \in 1..Len(keys) : r[keys[i]] = label[i]
            THEN <<r>> \o rest ELSE rest

RECURSIVE Labels(_, _)
\* the distinct tuples of values df holds in the columns keys, by first appearance
Labels(df, keys) ==
    IF df = << >> THEN << >>
    ELSE LET rest == Labels(ButLast(df), keys)
             lab == [i \in 1..Len(keys) |-> Last(df)[keys[i]]]
         IN IF \E j \in 1..Len(rest) : rest[j] = lab THEN rest ELSE Append(rest, lab)

RECURSIVE TupleLess(_, _)
\* Python's order on tuples of strings
TupleLess(x, y) ==
    IF x = << >> \/ y = << >> THEN FALSE
    ELSE IF Head(x) = Head(y) THEN TupleLess(Tail(x), Tail(y))
    ELSE RankIn(ValueOrder, Head(x)) < RankIn(ValueOrder, Head(y))

(***************************** DatasetProfile ******************************)
\* DatasetProfile(name, dataset_timestamp=ts, ..., tags={..., "segment": tag})
DatasetProfile(setId, ts, tag) == [set |-> setId, ts |-> ts, tag |-> tag, obs |-> << >>]

\* the table is appended to the observations
track_dataframe(prof, df) ==
    [prof EXCEPT !.obs = Append(@, df)]

\* a single value is a table of one row and one column
track_datum(prof, feature_name, value) ==
    [prof EXCEPT !.obs = Append(@, <<[k \in {feature_name} |-> value]>>)]

(***************************** frames **************************************)
\* A frame is the state a method runs on: the Logger, the writers' log, the
\* clock, the pending exception and return value, and the environment's
\* choices for this call (lag: seconds the clock advances before
\* _rotate_time reads it; failAt: which Writer.write of the flush raises).
Raise(f, e) == [f EXCEPT !.exc = e]
Return(f, v) == [f EXCEPT !.ret = v]
Raised(f) == f.exc # "none"

Profiles(l) == The(l.profiles)
\* self._profiles[0], or the first entry not yet released, where
\* self._profiles[-1] is meant
Oldest(l) ==
    The(Profiles(l)[CHOOSE i \in 1..Len(Profiles(l)) :
                       /\ ~IsNone(Profiles(l)[i])
                       /\ \A j \in 1..(i - 1) : IsNone(Profiles(l)[j])])

\* self._profiles[-1]
Current(l) == The(Last(Profiles(l)))
\* SetCurrent with the first entry of the list where the last one is meant
SetFirst(l, ps) ==
    [l EXCEPT !.profiles = Some([Profiles(l) EXCEPT ![1] = Some(ps)])]

SetCurrent(l, ps) ==
    [l EXCEPT !.profiles = Some([Profiles(l) EXCEPT ![Len(Profiles(l))] = Some(ps)])]

SegmentsIsNone(l) == l.segment_type = "None"

(***************************** Logger **************************************)
full_profile_check(l) ==
    SegmentsIsNone(l) \/ (~SegmentsIsNone(l) /\ l.profile_full_dataset)

\* a list argument is [kind |-> "str" or "tag", items |-> the list], kind
\* telling whether all its elements are str; self.segments = None is
\* segment_type "None" with no items
set_segments(l, segments) ==
    IF ~IsNone(segments) /\ The(segments).items # << >>
    THEN IF The(segments).kind = "str"
         THEN [l EXCEPT !.segment_type = "keys", !.segments = The(segments).items]
         ELSE [l EXCEPT !.segments = The(segments).items, !.segment_type = "set"]
    ELSE [l EXCEPT !.segments = << >>, !.segment_type = "None"]

\* the default of dataset_timestamp, evaluated once when the module is loaded
ImportTime == 0

intialize_profiles(f, dataset_timestamp) ==
    LET l == f.lg
        full_profile == IF full_profile_check(l)
                        THEN Some(DatasetProfile(f.nextId, dataset_timestamp, None))
                        ELSE None
        ps == [id |-> f.nextId, full_profile |-> full_profile, segmented_profiles |-> << >>]
    IN [f EXCEPT !.lg.profiles = Some(Append(Profiles(l), Some(ps))),
                 !.nextId = @ + 1]

UnitSeconds(unit) ==
    CASE unit = "s" -> 1
      [] unit = "m" -> 60
      [] unit = "h" -> 60 * 60
      [] unit = "d" -> 60 * 60 * 24

\* strftime(self.suffix) of an epoch second: the time cut to the unit's precision
Bucket(t, unit) == t - (t % UnitSeconds(unit))

rotate_when(l, time) == time + l.interval

should_rotate(f) ==
    IF IsNone(f.lg.with_rotation_time) THEN FALSE
    ELSE f.now >= f.lg.rotate_at

\* json.dumps of a segment: the pairs in list order
json_dumps(seg) == [i \in 1..Len(seg) |-> <<seg[i].key, seg[i].value>>]

hash_segment(seg) == [sha256 |-> json_dumps(seg)]

\* dict.get(hashed_seg, None) on a segmented_profiles dict
DictGet(d, h) ==
    IF \E i \in 1..Len(d) : d[i].hash = h
    THEN Some(d[CHOOSE i \in 1..Len(d) : d[i].hash = h].prof)
    ELSE None

get_segment(l, segment) ==
    LET hashed_seg == hash_segment(segment)
    IN DictGet(Current(l).segmented_profiles, hashed_seg)

\* the Writer.write calls one writer receives from flush, in order
WritesFor(l, w, rotation_suffix) ==
    LET cur == Current(l)
        segs == cur.segmented_profiles
        fullw == IF full_profile_check(l)
                 THEN <<[writer |-> w, set |-> cur.id, prof |-> cur.full_profile,
                         suffix |-> [seg |-> None, time |-> rotation_suffix]]>>
                 ELSE << >>
        segw == IF ~SegmentsIsNone(l)
                THEN [i \in 1..Len(segs) |->
                        [writer |-> w, set |-> cur.id, prof |-> Some(segs[i].prof),
                         suffix |-> [seg |-> Some(segs[i].hash), time |-> rotation_suffix]]]
                ELSE << >>
    IN fullw \o segw

RECURSIVE WritesOf(_, _, _)
\* for writer in self.writers: ...
WritesOf(l, writers, rotation_suffix) ==
    IF writers = << >> THEN << >>
    ELSE WritesFor(l, Head(writers), rotation_suffix)
         \o WritesOf(l, Tail(writers), rotation_suffix)

\* the calls of one flush that are made, given that call number stop raises
\* (stop > Len(calls): none raises)
Made(calls, stop) ==
    [i \in 1..(IF stop > Len(calls) THEN Len(calls) ELSE stop) |->
        [writer |-> calls[i].writer, set |-> calls[i].set,
         prof |-> calls[i].prof, suffix |-> calls[i].suffix,
         ok |-> i < stop]]

\* the first call that raises: the writer fails to deliver (the failAt-th
\* call of this flush) or it is handed None instead of a profile
Stop(calls, failAt) ==
    LET bad == {i \in 1..Len(calls) : i = failAt \/ IsNone(calls[i].prof)}
    IN IF bad = {} THEN Len(calls) + 1
       ELSE CHOOSE i \in bad : \A j \in bad : i <= j

flush(f, rotation_suffix) ==
    IF ~f.lg.active THEN Return(f, None)
    ELSE
    With(WritesOf(f.lg, f.lg.writers, rotation_suffix), LAMBDA calls :
    With(Stop(calls, f.failAt), LAMBDA stop :
    With([f EXCEPT !.written = @ \o Made(calls, stop), !.failAt = 0], LAMBDA f1 :
        IF stop > Len(calls) THEN Return(f1, None)
        ELSE IF IsNone(calls[stop].prof) THEN Raise(f1, "AttributeError")
        ELSE Raise(f1, "SinkError"))))

RECURSIVE CatchUp(_, _, _)
\* while self.rotate_at <= current_time: self.rotate_at += self.interval
CatchUp(rotate_at, current_time, interval) ==
    IF rotate_at <= current_time
    THEN CatchUp(rotate_at + interval, current_time, interval)
    ELSE rotate_at

\* the dataset_timestamp rewrite of _rotate_time
Restamp(l, log_datetime) ==
    LET cur == Current(l)
        full == IF SegmentsIsNone(l) \/ (~SegmentsIsNone(l) /\ l.profile_full_dataset)
                THEN Some([The(cur.full_profile) EXCEPT !.ts = Some(log_datetime)])
                ELSE cur.full_profile
        segs == IF ~SegmentsIsNone(l)
                THEN [i \in 1..Len(cur.segmented_profiles) |->
                        [cur.segmented_profiles[i] EXCEPT !.prof.ts = Some(log_datetime)]]
                ELSE cur.segmented_profiles
    IN SetCurrent(l, [cur EXCEPT !.full_profile = full, !.segmented_profiles = segs])

\* Evict without the release: every retired ProfileSet stays in the list
KeepAll(l) == l

\* if len(self._profiles) > self.cache_size: self._profiles[-self.cache_size - 1] = None
Evict(l) ==
    LET ps == Profiles(l)
    IN IF Len(ps) > l.cache_size
       THEN [l EXCEPT !.profiles = Some([ps EXCEPT ![Len(ps) - l.cache_size] = None])]
       ELSE l

\* Advance by one interval from the old rotate_at, without the catch-up loop
AdvanceOneInterval(f, current_time) ==
    [f EXCEPT !.lg.rotate_at = @ + f.lg.interval]

\* compute new rotate_at; with an interval that is not positive the loop
\* never ends
Advance(f, current_time) ==
    IF f.lg.interval <= 0
    THEN Raise([f EXCEPT !.lg.rotate_at = rotate_when(f.lg, current_time)], "Hang")
    ELSE [f EXCEPT !.lg.rotate_at =
            CatchUp(rotate_when(f.lg, current_time), current_time, f.lg.interval)]

\* _rotate_time over a flush that does not stop it: whatever the writers
\* did, the fresh ProfileSet is installed and rotate_at is advanced
RotateRegardless(f) ==
    LET l == f.lg
        current_time == f.now + f.lag
        sequence_start == l.rotate_at - l.interval
        log_datetime == Bucket(sequence_start, The(l.with_rotation_time))
        rotation_suffix == Some(log_datetime)
    IN
    IF (SegmentsIsNone(l) \/ l.profile_full_dataset) /\ IsNone(Current(l).full_profile)
    THEN Raise([f EXCEPT !.now = current_time, !.lag = 0], "AttributeError")
    ELSE
    With(flush([f EXCEPT !.now = current_time, !.lag = 0,
                         !.lg = Restamp(l, log_datetime)], rotation_suffix), LAMBDA f1 :
        Advance(intialize_profiles([f1 EXCEPT !.lg = Evict(f1.lg)],
                                   Some(ImportTime)), current_time))

rotate_time(f) ==
    LET l == f.lg
        current_time == f.now + f.lag
        sequence_start == l.rotate_at - l.interval
        log_datetime == Bucket(sequence_start, The(l.with_rotation_time))
        rotation_suffix == Some(log_datetime)
    IN
    IF (SegmentsIsNone(l) \/ l.profile_full_dataset) /\ IsNone(Current(l).full_profile)
    THEN Raise([f EXCEPT !.now = current_time, !.lag = 0], "AttributeError")
    ELSE
    With(flush([f EXCEPT !.now = current_time, !.lag = 0,
                         !.lg = Restamp(l, log_datetime)], rotation_suffix), LAMBDA f1 :
        IF Raised(f1) THEN f1
        ELSE Advance(intialize_profiles([f1 EXCEPT !.lg = Evict(f1.lg)],
                                        Some(ImportTime)), current_time))

\* profile = self._profiles[-1]["full_profile"]; self._profiles = None
LastProfile(f) ==
    IF IsNone(Last(Profiles(f.lg))) THEN Raise(f, "TypeError")
    ELSE Return([f EXCEPT !.lg.profiles = None], Current(f.lg).full_profile)

\* close on a Logger that is active
CloseActive(f) ==
    IF IsNone(f.lg.with_rotation_time)
    THEN With(flush(f, None), LAMBDA f1 :
            IF Raised(f1) THEN f1
            ELSE LastProfile([f1 EXCEPT !.lg.active = FALSE]))
    ELSE With(rotate_time(f), LAMBDA f1 :
            IF Raised(f1) THEN f1
            ELSE LastProfile([f1 EXCEPT !.lg.active = FALSE,
                                        !.lg.profiles = Some(ButLast(The(@)))]))

\* close without the early return: flush declines, then self._profiles,
\* which is None, is subscripted
CloseUnguarded(f) ==
    IF f.lg.active THEN CloseActive(f) ELSE Raise(f, "TypeError")

close(f) ==
    IF ~f.lg.active THEN Return(f, None)
    ELSE CloseActive(f)

(***************************** segment routing *****************************)
KeyLess(x, y) == RankIn(KeyOrder, x.key) < RankIn(KeyOrder, y.key)

\* sorted(segment, key=lambda x: x["key"])
SortByKey(segment) == SortSeq(segment, KeyLess)

\* the dict d with the profile stored under h replaced by Track(profile)
DictTrack(d, h, Track(_)) ==
    [i \in 1..Len(d) |-> IF d[i].hash = h THEN [d[i] EXCEPT !.prof = Track(@)] ELSE d[i]]

log_df_segment(f, df, segment0) ==
    With(SortByKey(segment0), LAMBDA segment :
    With(Current(f.lg), LAMBDA cur :
        IF IsNone(get_segment(f.lg, segment))
        THEN LET fresh == DatasetProfile(cur.id, Some(f.now), Some(json_dumps(segment)))
                 entry == [hash |-> hash_segment(segment),
                           prof |-> track_dataframe(fresh, df)]
             IN [f EXCEPT !.lg = SetCurrent(f.lg,
                    [cur EXCEPT !.segmented_profiles = Append(@, entry)])]
        ELSE [f EXCEPT !.lg = SetCurrent(f.lg, [cur EXCEPT !.segmented_profiles =
                DictTrack(@, hash_segment(segment),
                          LAMBDA p : track_dataframe(p, df))])]))

\* data.groupby(keys): KeyError when a key is no column of data
GroupByFails(data, keys) ==
    \E i \in 1..Len(keys) : keys[i] \notin DOMAIN data[1]

\* grouped_data.groups.keys(): the group labels in sorted order; grouping by
\* a list of one key labels each group by the bare value, not by a 1-tuple
\* (the unwrapping log_fixed_segments does for its lookup)
GroupKeys(data, keys) ==
    LET tuples == SortSeq(Labels(data, keys), TupleLess)
    IN [i \in 1..Len(tuples) |->
          [label |-> IF Len(keys) = 1 THEN tuples[i][1] ELSE tuples[i],
           rows |-> SelectRows(data, keys, tuples[i])]]

\* each_segment[i] for a 0-based i: a character of a bare string label, or a
\* component of a tuple label
LabelItem(nkeys, each_segment, i) ==
    IF nkeys = 1 THEN <<each_segment[i + 1]>> ELSE each_segment[i + 1]

RECURSIVE LogGroups(_, _, _)
\* for each_segment in segments: ...
LogGroups(f, groups, keys) ==
    IF groups = << >> THEN f
    ELSE LET each_segment == Head(groups).label
             segment_df == Head(groups).rows
             segment_tags == [i \in 1..Len(keys) |->
                                [key |-> keys[i],
                                 value |-> LabelItem(Len(keys), each_segment, i - 1)]]
         IN With(log_df_segment(f, segment_df, segment_tags), LAMBDA f1 :
                LogGroups(f1, Tail(groups), keys))

log_segments_keys(f, data) ==
    IF GroupByFails(data, f.lg.segments) THEN Raise(f, "KeyError")
    ELSE LogGroups(f, GroupKeys(data, f.lg.segments), f.lg.segments)

RECURSIVE LogFixed(_, _, _)
\* for segment_tag in self.segments: ...
LogFixed(f, data, segments) ==
    IF segments = << >> THEN f
    ELSE LET segment_tag == Head(segments)
             segment_keys == [i \in 1..Len(segment_tag) |-> segment_tag[i].key]
             seg == [i \in 1..Len(segment_tag) |-> segment_tag[i].value]
         IN IF GroupByFails(data, segment_keys) THEN Raise(f, "KeyError")
            ELSE LET segment_df == SelectRows(data, segment_keys, seg)
                 IN IF segment_df = << >>
                    THEN LogFixed(f, data, Tail(segments))
                    ELSE With(log_df_segment(f, segment_df, segment_tag), LAMBDA f1 :
                            LogFixed(f1, data, Tail(segments)))

log_fixed_segments(f, data) == LogFixed(f, data, f.lg.segments)

log_segments(f, data) ==
    IF f.lg.segment_type = "keys" THEN log_segments_keys(f, data)
    ELSE IF f.lg.segment_type = "set" THEN log_fixed_segments(f, data)
    ELSE Raise(f, "TypeError")

log_segment_datum(f, feature_name, value) ==
    LET l == f.lg
        cur == Current(l)
        segment == <<[key |-> feature_name, value |-> value]>>
        segment_profile == get_segment(l, segment)
        tracked == [f EXCEPT !.lg = SetCurrent(l, [cur EXCEPT !.segmented_profiles =
                        DictTrack(@, hash_segment(segment),
                                  LAMBDA p : track_datum(p, feature_name, value))])]
    IN IF l.segment_type = "keys"
       THEN IF \E i \in 1..Len(l.segments) : l.segments[i] = feature_name
            THEN IF IsNone(segment_profile) THEN f ELSE tracked
            \* the loop runs over the dict's keys, which are str: the first
            \* each_profile.track_datum raises
            ELSE IF cur.segmented_profiles = << >> THEN f
                 ELSE Raise(f, "AttributeError")
       ELSE IF l.segment_type = "set"
       THEN IF ~\E i \in 1..Len(l.segments) : l.segments[i] = segment
            THEN f
            ELSE IF IsNone(segment_profile) THEN Raise(f, "AttributeError")
                 ELSE tracked
       ELSE f

(***************************** ingestion ***********************************)
\* if self.should_rotate(): self._rotate_time()
RotateIfDue(f) == IF should_rotate(f) THEN rotate_time(f) ELSE f

\* self._profiles[-1]["full_profile"].<track>(...), when full_profile_check()
TrackFull(f, Track(_)) ==
    LET cur == Current(f.lg)
    IN IF ~full_profile_check(f.lg) THEN f
       ELSE IF IsNone(cur.full_profile) THEN Raise(f, "AttributeError")
       ELSE [f EXCEPT !.lg = SetCurrent(f.lg,
                [cur EXCEPT !.full_profile = Some(Track(The(@)))])]

\* self.profile_full_dataset = ...; if segments is not None: self.set_segments(...)
SetOptions(l, segments, profile_full_dataset) ==
    LET l1 == [l EXCEPT !.profile_full_dataset = profile_full_dataset]
    IN IF ~IsNone(segments) THEN set_segments(l1, segments) ELSE l1

\* if self.full_profile_check(): ...track_dataframe(df)
\* if self.segments: self.log_segments(df)
TrackDataframe(f, df) ==
    With(TrackFull(f, LAMBDA p : track_dataframe(p, df)), LAMBDA f2 :
        IF Raised(f2) THEN f2
        ELSE IF ~SegmentsIsNone(f2.lg) THEN log_segments(f2, df)
        ELSE f2)

\* log_dataframe with the rotation check moved behind the tracking
TrackBeforeRotate(f, df, segments, profile_full_dataset) ==
    With(TrackDataframe(
            [f EXCEPT !.lg = SetOptions(@, segments, profile_full_dataset)], df),
         LAMBDA f1 : IF Raised(f1) THEN f1 ELSE RotateIfDue(f1))

\* log_dataframe on a Logger that is active
LogDataframeActive(f, df, segments, profile_full_dataset) ==
    With(RotateIfDue(f), LAMBDA f1 :
        IF Raised(f1) THEN f1
        ELSE TrackDataframe(
                [f1 EXCEPT !.lg = SetOptions(@, segments, profile_full_dataset)], df))

\* log_dataframe without the early return: self._profiles, which is None,
\* is subscripted
LogDataframeUnguarded(f, df, segments, profile_full_dataset) ==
    IF f.lg.active THEN LogDataframeActive(f, df, segments, profile_full_dataset)
    ELSE Raise(f, "TypeError")

log_dataframe(f, df, segments, profile_full_dataset) ==
    IF ~f.lg.active THEN Return(f, None)
    ELSE LogDataframeActive(f, df, segments, profile_full_dataset)

\* df is what pd.read_csv returns for filepath_or_buffer
log_csv(f, df, segments, profile_full_dataset) ==
    IF ~f.lg.active THEN Return(f, None)
    ELSE
    With(RotateIfDue(f), LAMBDA f1 :
        IF Raised(f1) THEN f1
        ELSE log_dataframe([f1 EXCEPT !.lg = SetOptions(@, segments, profile_full_dataset)],
                           df, None, FALSE))

\* TrackImage tracks the image's features on the profile it is handed
log_image(f, image) ==
    IF ~f.lg.active THEN Return(f, None)
    ELSE
    With(RotateIfDue(f), LAMBDA f1 :
        IF Raised(f1) THEN f1
        ELSE IF IsNone(Current(f1.lg).full_profile) THEN Raise(f1, "AttributeError")
        ELSE [f1 EXCEPT !.lg = SetCurrent(f1.lg, [Current(f1.lg) EXCEPT !.full_profile =
                Some(track_datum(The(@), "image", image))])])

log(f, features, feature_name, value) ==
    IF ~f.lg.active THEN Return(f, None)
    ELSE
    With(RotateIfDue(f), LAMBDA f1 :
        IF Raised(f1) THEN f1
        ELSE IF IsNone(features) /\ IsNone(feature_name) THEN Return(f1, None)
        ELSE IF ~IsNone(features) /\ ~IsNone(feature_name) THEN Raise(f1, "ValueError")
        ELSE IF ~IsNone(features)
        THEN log_dataframe(f1, <<The(features)>>, None, FALSE)
        ELSE
        With(TrackFull(f1, LAMBDA p : track_datum(p, The(feature_name), value)),
             LAMBDA f2 :
            IF Raised(f2) THEN f2
            ELSE IF ~SegmentsIsNone(f2.lg)
            THEN log_segment_datum(f2, The(feature_name), value)
            ELSE f2))

is_active(l) == l.active

(***************************** construction ********************************)
\* Logger.__init__ at clock value t; c holds the constructor's arguments
Logger(c, t) ==
    LET l0 == [active |-> TRUE,
               writers |-> c.writers,
               cache_size |-> c.cache_size,
               profile_full_dataset |-> c.profile_full_dataset,
               segments |-> << >>, segment_type |-> "None",
               profiles |-> Some(<< >>),
               interval |-> c.interval,
               with_rotation_time |-> c.with_rotation_time,
               rotate_at |-> 0]
        l1 == set_segments(l0, c.segments)
        f1 == intialize_profiles([lg |-> l1, nextId |-> 1], c.dataset_timestamp)
        l2 == f1.lg
    IN IF IsNone(c.with_rotation_time) THEN l2
       ELSE LET l3 == [l2 EXCEPT !.interval = UnitSeconds(The(c.with_rotation_time)) * @]
            IN [l3 EXCEPT !.rotate_at = rotate_when(l3, t)]

(***************************** inputs **************************************)
R_US == [a |-> US, b |-> PP]
R_EU == [a |-> EU, b |-> PP]

DataFrames == { <<R_US, R_EU>> }

Keys(items) == Some([kind |-> "str", items |-> items])
Tags(items) == Some([kind |-> "tag", items |-> items])
Tag(k, v) == [key |-> k, value |-> v]

\* log(features, feature_name, value)
LogArgs == { <<Some(R_US), None, None>>,
             <<None, Some("a"), US>>, <<None, Some("b"), PP>>,
             <<Some(R_US), Some("a"), US>> }

\* log_dataframe(df, segments, profile_full_dataset)
DataframeArgs == { <<df, None, FALSE>> : df \in DataFrames }
                 \cup { <<<<R_US, R_EU>>, Keys(<<"a">>), TRUE>> }

\* log_csv(file, segments, profile_full_dataset), the file holding one row
CsvArgs == { <<<<R_US>>, None, TRUE>> }

\* segments asked of get_segment
Lookups == { <<Tag("a", US), Tag("b", PP)>>, <<Tag("b", PP), Tag("a", US)>> }

\* What the environment does during a call, <<lag, failAt>>: the seconds the
\* clock advances between should_rotate and _rotate_time, and which
\* Writer.write of the flush fails to deliver (0: none).
Quiet == { <<0, 0>> }
Disturbed == { <<0, 0>>, <<1, 0>>, <<0, 1>>, <<0, 2>> }

\* constructor arguments: <<segments, profile_full_dataset>>,
\* <<with_rotation_time, interval>>, cache_size
Unsegmented == <<None, FALSE>>
ByKeyA == <<Keys(<<"a">>), FALSE>>
ByKeyAFull == <<Keys(<<"a">>), TRUE>>
ByKeysBA == <<Keys(<<"b", "a">>), FALSE>>
FixedA == <<Tags(<< <<Tag("a", US)>> >>), FALSE>>
FixedBAFull == <<Tags(<< <<Tag("b", PP), Tag("a", US)>> >>), TRUE>>

NoRotation == <<None, 1>>
EverySecond == <<Some("s"), 1>>
EveryTwoSeconds == <<Some("s"), 2>>

Config(sc, rc, cs) ==
    [segments |-> sc[1], profile_full_dataset |-> sc[2],
     with_rotation_time |-> rc[1], interval |-> rc[2],
     cache_size |-> cs, writers |-> <<"w1", "w2">>,
     dataset_timestamp |-> None]

(***************************** the state machine ***************************)
\* calls made one after the other: no thread is ever inside a call
OneCaller ==
    [atomic |-> TRUE, owner |-> 0,
     pc |-> <<"idle", "idle">>, time |-> <<0, 0>>, start |-> <<0, 0>>]

\* configs: the tuple of constructor arguments to start from
InitWith(configs) ==
    /\ now = 1
    /\ \E i \in 1..Len(configs) :
          lg = Logger(Config(configs[i][1], configs[i][2], configs[i][3]), now)
    /\ written = << >>
    /\ res = [op |-> "init", arg |-> None, ret |-> None, exc |-> "none",
              active |-> TRUE, due |-> FALSE, set |-> 0]
    /\ hist = [calls |-> 0, nextId |-> 2, disturbed |-> FALSE, failed |-> FALSE,
               flushed |-> FALSE, opts |-> FALSE,
               segmented |-> ~SegmentsIsNone(lg), full |-> lg.profile_full_dataset]
    /\ th = OneCaller

Frame(lag, failAt) ==
    [lg |-> lg, written |-> written, now |-> now, exc |-> "none", ret |-> None,
     nextId |-> hist.nextId, lag |-> lag, failAt |-> failAt]

Due == should_rotate(Frame(0, 0))

\* the environment only matters to a call that rotates or flushes
\* and interferes with one call of a behaviour at most
EnvIf(flushes) ==
    IF lg.active /\ flushes /\ ~hist.disturbed THEN Disturbed ELSE Quiet

\* The call op(arg) ran to the frame f. res keeps the call, its outcome and
\* what held when it was made: whether the Logger was active, whether
\* rotation was due, and the id of the active ProfileSet. hist keeps the
\* number of calls, the next ProfileSet id, whether the environment has
\* interfered, whether a write failed, whether flush was called directly,
\* whether a call passed segmentation options, and what the constructor
\* was given (segmented, full).
Commit(f, op, arg, opts, env) ==
    \* a call that never returned is the last one
    /\ res.exc # "Hang"
    /\ lg' = f.lg
    /\ written' = f.written
    /\ now' = f.now
    /\ res' = [op |-> op, arg |-> arg, ret |-> f.ret, exc |-> f.exc,
               active |-> lg.active, due |-> Due,
               set |-> IF lg.active THEN Current(lg).id ELSE 0]
    /\ hist' = [calls |-> hist.calls + 1, nextId |-> f.nextId,
                disturbed |-> hist.disturbed \/ env # <<0, 0>>,
                failed |-> hist.failed \/ \E i \in 1..Len(f.written) : ~f.written[i].ok,
                flushed |-> hist.flushed \/ op = "flush",
                opts |-> hist.opts \/ opts,
                segmented |-> hist.segmented, full |-> hist.full]
    /\ th' = th

Tick ==
    /\ now < MaxTime
    /\ now' = now + 1
    /\ UNCHANGED <<lg, written, res, hist, th>>

Log ==
    /\ hist.calls < MaxCalls
    /\ \E env \in EnvIf(Due), args \in LogArgs :
       \E f \in {log(Frame(env[1], env[2]), args[1], args[2], args[3])} :
          Commit(f, "log", args, FALSE, env)

LogDataframe ==
    /\ hist.calls < MaxCalls
    /\ \E env \in EnvIf(Due), args \in DataframeArgs :
       \E f \in {log_dataframe(Frame(env[1], env[2]), args[1], args[2], args[3])} :
          Commit(f, "log_dataframe", args, ~IsNone(args[2]) \/ args[3], env)

LogCsv ==
    /\ hist.calls < MaxCalls
    /\ \E env \in EnvIf(Due), args \in CsvArgs :
       \E f \in {log_csv(Frame(env[1], env[2]), args[1], args[2], args[3])} :
          Commit(f, "log_csv", args, ~IsNone(args[2]) \/ args[3], env)

LogImage ==
    /\ hist.calls < MaxCalls
    /\ \E env \in EnvIf(Due) :
       \E f \in {log_image(Frame(env[1], env[2]), <<"i">>)} :
          Commit(f, "log_image", None, FALSE, env)

Flush ==
    /\ hist.calls < MaxCalls
    /\ \E env \in { e \in EnvIf(TRUE) : e[1] = 0 } :
       \E f \in {flush(Frame(0, env[2]), None)} :
          Commit(f, "flush", None, FALSE, env)

Close ==
    /\ hist.calls < MaxCalls
    /\ \E env \in EnvIf(TRUE) :
       \E f \in {close(Frame(env[1], env[2]))} :
          Commit(f, "close", None, FALSE, env)

\* get_segment reads self._profiles[-1]: only while the Logger holds profiles
GetSegment ==
    /\ hist.calls < MaxCalls
    /\ lg.active
    /\ \E segment \in Lookups :
       \E f \in {Return(Frame(0, 0), get_segment(lg, segment))} :
          Commit(f, "get_segment", segment, FALSE, <<0, 0>>)

Next ==
    \/ Tick
    \/ Log
    \/ LogDataframe
    \/ LogCsv
    \/ LogImage
    \/ Flush
    \/ Close
    \/ GetSegment

\* rotation settings and cache sizes, unsegmented or segmented by one key
Init == InitWith(<< <<Unsegmented, NoRotation, 1>>,
                    <<Unsegmented, EverySecond, 0>>,
                    <<Unsegmented, EveryTwoSeconds, 2>>,
                    <<ByKeyAFull, EverySecond, 1>> >>)

Spec == Init /\ [][Next]_vars

\* every segmentation policy, with and without rotation
InitSeg == InitWith(<< <<Unsegmented, NoRotation, 1>>,
                       <<ByKeyA, EverySecond, 1>>,
                       <<ByKeyAFull, NoRotation, 1>>,
                       <<ByKeysBA, NoRotation, 1>>,
                       <<FixedA, NoRotation, 1>>,
                       <<FixedBAFull, EverySecond, 1>> >>)

SpecSeg == InitSeg /\ [][Next]_vars

(***************************** properties **********************************)
\* a step that is a call on the Logger, not a tick of the clock
Call == hist'.calls = hist.calls + 1

Ingestion == res'.op \in {"log", "log_dataframe", "log_csv", "log_image"}

\* the Writer.write calls made by the step
Appended == SubSeq(written', Len(written) + 1, Len(written'))

\* the step retires the active ProfileSet: a rotation that is due, or close
Retires == res'.op = "close" \/ (Ingestion /\ Due)

\* the time-bucket of the window that the active ProfileSet covers
WindowSuffix ==
    IF IsNone(lg.with_rotation_time) THEN None
    ELSE Some(Bucket(lg.rotate_at - lg.interval, The(lg.with_rotation_time)))

\* one write per writer and accumulator of the active ProfileSet of l: the
\* full accumulator (seg None) if present, and every segment accumulator
ExpectedWrites(l, time) ==
    LET cur == Current(l)
        accs == { None : x \in { x \in {1} : ~IsNone(cur.full_profile) } }
                \cup { Some(cur.segmented_profiles[i].hash) :
                          i \in 1..Len(cur.segmented_profiles) }
    IN { [writer |-> l.writers[w], set |-> cur.id, seg |-> a, time |-> time] :
            w \in 1..Len(l.writers), a \in accs }

ActualWrites ==
    { [writer |-> Appended[i].writer, set |-> Appended[i].set,
       seg |-> Appended[i].suffix.seg, time |-> Appended[i].suffix.time] :
         i \in 1..Len(Appended) }

\* the accumulators of a ProfileSet: <<set id, fingerprint (None: full), obs>>
AccumulatorsOf(ps) ==
    { <<ps.id, None, The(ps.full_profile).obs>> :
         x \in { x \in {1} : ~IsNone(ps.full_profile) } }
    \cup { <<ps.id, Some(ps.segmented_profiles[i].hash),
             ps.segmented_profiles[i].prof.obs>> :
              i \in 1..Len(ps.segmented_profiles) }

\* the accumulators of every ProfileSet the Logger still holds
Retained(l) ==
    IF IsNone(l.profiles) THEN {}
    ELSE UNION { AccumulatorsOf(The(Profiles(l)[i])) :
                    i \in { i \in 1..Len(Profiles(l)) : ~IsNone(Profiles(l)[i]) } }

\* the accumulators that hold data they did not hold before the step
Applied == { t \in Retained(lg') : t[3] # << >> /\ t \notin Retained(lg) }

\* C1: when no write fails and flush is never called directly (and no call
\* passes segmentation options), the step that retires the active ProfileSet,
\* a due rotation or close, makes exactly one write per writer for the set's
\* full accumulator, if present, and one per writer for each segment
\* accumulator, each with the window's time-bucket suffix, and no other step
\* writes anything.
C1_EverySetHandedOnce ==
    [][ (Call /\ lg.active /\ ~hist'.failed /\ ~hist'.flushed /\ ~hist'.opts) =>
            /\ Len(Appended) = Cardinality(ActualWrites)
            /\ ActualWrites = IF Retires THEN ExpectedWrites(lg, WindowSuffix) ELSE {}
      ]_vars

\* C2: an ingestion call on an active Logger with rotation due applies its
\* data only after the rotation. What it writes is the set that was active,
\* with the content it had before the call; the data goes nowhere but into
\* the ProfileSet the call installs; and when data was applied that set is
\* the active one and the old set was written to every writer.
C2_RotationBeforeData ==
    [][ (Call /\ Ingestion /\ lg.active /\ Due) =>
            /\ \A i \in 1..Len(Appended) :
                  /\ Appended[i].set = Current(lg).id
                  /\ Appended[i].ok =>
                        <<Appended[i].set, Appended[i].suffix.seg,
                          The(Appended[i].prof).obs>> \in AccumulatorsOf(Current(lg))
            /\ \A t \in Applied : t[1] = hist.nextId
            /\ Applied # {} =>
                  /\ Current(lg').id = hist.nextId
                  /\ ActualWrites \subseteq ExpectedWrites(lg, WindowSuffix)
                  /\ { e \in ExpectedWrites(lg, WindowSuffix) :
                          ~IsNone(e.seg) \/ full_profile_check(lg) } \subseteq ActualWrites
      ]_vars

\* a log_dataframe call rotated a ProfileSet that held data out to the
\* writers and recorded its own data in the set it installed
C2_Witness ==
    /\ res.op = "log_dataframe" /\ res.active /\ res.due /\ res.exc = "none"
    /\ lg.active /\ Current(lg).id = res.set + 1
    /\ ~IsNone(Current(lg).full_profile)
    /\ Len(The(Current(lg).full_profile).obs) = 1
    /\ \E i \in 1..Len(written) :
          written[i].set = res.set /\ The(written[i].prof).obs # << >>

\* a step in which a rotation ran to completion: a ProfileSet was installed
Rotated == hist'.nextId > hist.nextId

\* C3: after every completed rotation rotate_at is strictly greater than
\* the clock value the rotation read, however long the stall, so that
\* rotation is not due again at that clock value.
C3_RotateAtInFuture ==
    [][ Rotated => (lg'.rotate_at > now' /\ ~Due') ]_vars

\* one rotation, two whole intervals late: interval 1, rotate_at 2, clock 4
C3_Witness ==
    /\ hist.nextId = 3 /\ lg.interval = 1 /\ res.due
    /\ now = 4 /\ lg.rotate_at = 5

\* C4: close on a Logger that is no longer active returns None, writes
\* nothing and leaves the Logger unchanged, with or without rotation.
C4_CloseIdempotent ==
    [][ (Call /\ res'.op = "close" /\ ~lg.active) =>
            /\ lg' = lg
            /\ written' = written
            /\ res'.ret = None
            /\ res'.exc = "none"
      ]_vars

\* a second close, on a Logger with rotation configured and rotation due
C4_Witness ==
    /\ res.op = "close" /\ ~res.active /\ res.ret = None
    /\ ~IsNone(lg.with_rotation_time) /\ res.due

\* C5: a close that completes leaves the Logger inactive, an inactive
\* Logger never becomes active again, and every call on it writes nothing,
\* rotates nothing, creates no ProfileSet or accumulator and does not raise.
C5_ClosedStaysClosed ==
    [][ /\ (Call /\ res'.op = "close" /\ res'.exc = "none") => ~is_active(lg')
        /\ ~is_active(lg) =>
              /\ ~is_active(lg')
              /\ Call => /\ lg' = lg
                         /\ written' = written
                         /\ hist'.nextId = hist.nextId
                         /\ res'.exc = "none"
      ]_vars

\* log_dataframe was called on a closed Logger at a time when rotation
\* would have been due
C5_Witness ==
    /\ res.op = "log_dataframe" /\ ~res.active /\ res.due /\ ~is_active(lg)

\* the same accumulator up to the timestamp a rotation rewrites
SameAccumulator(x, y) ==
    IF IsNone(x) \/ IsNone(y) THEN x = y
    ELSE The(x).set = The(y).set /\ The(x).tag = The(y).tag /\ The(x).obs = The(y).obs

\* C6: close on an active Logger returns, without raising, the full
\* accumulator of the ProfileSet that was active before the call, with or
\* without rotation and for every cache size (here in runs where no write
\* fails and no call passed segmentation options).
C6_CloseReturnsLastFull ==
    [][ (Call /\ res'.op = "close" /\ lg.active /\ ~hist'.failed /\ ~hist.opts) =>
            /\ res'.exc = "none"
            /\ SameAccumulator(res'.ret, Current(lg).full_profile)
      ]_vars

\* C7: while no call passes segmentation options, the active ProfileSet has
\* a full accumulator iff the Logger was constructed without segments or
\* with profile_full_dataset.
C7_FullIffConfigured ==
    (lg.active /\ ~hist.opts /\ ~IsNone(Last(Profiles(lg)))) =>
        (~IsNone(Current(lg).full_profile) <=> (~hist.segmented \/ hist.full))

\* the retired ProfileSets: every entry of the list but the active one
Retired(l) ==
    IF l.active THEN ButLast(Profiles(l)) ELSE Profiles(l)

\* C8: the retired ProfileSets the Logger still holds are never more than
\* cache_size, and they are the most recently retired ones.
C8_CacheBounded ==
    ~IsNone(lg.profiles) =>
        LET old == Retired(lg)
        IN /\ Cardinality({ i \in 1..Len(old) : ~IsNone(old[i]) }) <= lg.cache_size
           /\ \A i, j \in 1..Len(old) : (i < j /\ ~IsNone(old[i])) => ~IsNone(old[j])

\* cache_size 1 after two rotations: the first set released, the second kept
C8_Witness ==
    /\ lg.active /\ lg.cache_size = 1 /\ Len(Profiles(lg)) = 3
    /\ IsNone(Profiles(lg)[1]) /\ ~IsNone(Profiles(lg)[2])

\* C9: the fingerprint of a segment does not depend on the order of its
\* pairs, and get_segment, given the pairs in any order, returns the
\* accumulator stored for the segment sorted by key, as the batch path
\* stores it.
C9_FingerprintOrderIndependent ==
    res.op = "get_segment" =>
        /\ hash_segment(res.arg) = hash_segment(SortByKey(res.arg))
        /\ res.ret = get_segment(lg, SortByKey(res.arg))

\* the segment pairing each configured key with the value the row holds
SegmentOfRow(keys, row) ==
    SortByKey([i \in 1..Len(keys) |-> [key |-> keys[i], value |-> row[keys[i]]]])

\* every row a segment accumulator holds is stored under the fingerprint of
\* the segment pairing each key with the row's value
RowsUnderOwnFingerprint(l) ==
    LET segs == Current(l).segmented_profiles
    IN \A i \in 1..Len(segs) : \A t \in 1..Len(segs[i].prof.obs) :
          \A r \in 1..Len(segs[i].prof.obs[t]) :
             LET row == segs[i].prof.obs[t][r]
             IN (\A k \in 1..Len(l.segments) : l.segments[k] \in DOMAIN row) =>
                    segs[i].hash = hash_segment(SegmentOfRow(l.segments, row))

\* the segment accumulators that hold a row with value v in column k
HoldersOf(l, k, v) ==
    LET segs == Current(l).segmented_profiles
    IN { i \in 1..Len(segs) : \E t \in 1..Len(segs[i].prof.obs) :
            \E r \in 1..Len(segs[i].prof.obs[t]) :
               LET row == segs[i].prof.obs[t][r]
               IN k \in DOMAIN row /\ row[k] = v }

\* C10: segmented by keys (no call passing segmentation options), the rows
\* of a batch are stored under the fingerprint of the segment pairing each
\* key with the value they hold; and a later log(feature_name=k, value=v)
\* for the configured key k, made when no rotation is due, adds the
\* observation to the accumulator holding the rows with k = v and to no
\* other segment accumulator.
C10_RowsInOwnSegment ==
    [][ (Call /\ lg.active /\ lg'.active /\ lg.segment_type = "keys" /\ ~hist'.opts) =>
            /\ RowsUnderOwnFingerprint(lg')
            /\ ( /\ res'.op = "log" /\ IsNone(res'.arg[1]) /\ ~Due
                 /\ lg.segments = <<The(res'.arg[2])>>
                 /\ HoldersOf(lg, The(res'.arg[2]), res'.arg[3]) # {} ) =>
                   LET k == The(res'.arg[2])
                       v == res'.arg[3]
                       old == Current(lg).segmented_profiles
                       new == Current(lg').segmented_profiles
                   IN /\ Len(new) = Len(old)
                      /\ \A i \in 1..Len(old) :
                            new[i] = IF i \in HoldersOf(lg, k, v)
                                     THEN [old[i] EXCEPT !.prof = track_datum(@, k, v)]
                                     ELSE old[i]
      ]_vars

\* C11: a log call on an active Logger that is given both a feature map and
\* a feature name raises ValueError and changes nothing: no accumulator, no
\* rotation, no write, the same active ProfileSet and the same rotate_at,
\* also when rotation is due.
C11_AmbiguousInputNoMutation ==
    [][ ( /\ Call /\ res'.op = "log" /\ lg.active
          /\ ~IsNone(res'.arg[1]) /\ ~IsNone(res'.arg[2]) ) =>
            /\ res'.exc = "ValueError"
            /\ lg' = lg
            /\ written' = written
            /\ hist'.nextId = hist.nextId
      ]_vars

\* a Writer.write of the step failed to deliver
WriteFailed == \E i \in 1..Len(Appended) : ~Appended[i].ok /\ ~IsNone(Appended[i].prof)

\* C12: when a write fails during a rotation or close, every writer still
\* receives its write for every accumulator of the retiring ProfileSet that
\* the flush hands out, the failure reaches the caller, and a rotation has
\* by then completed: a fresh ProfileSet is installed and rotate_at is
\* advanced beyond the clock.
C12_AllWritesAttempted ==
    [][ (Call /\ lg.active /\ Retires /\ WriteFailed) =>
            /\ { e \in ExpectedWrites(lg, WindowSuffix) :
                    ~IsNone(e.seg) \/ full_profile_check(lg) } \subseteq ActualWrites
            /\ res'.exc = "SinkError"
            /\ ~IsNone(lg.with_rotation_time) => (Rotated /\ lg'.rotate_at > now')
      ]_vars

(***************************** other rotation settings *********************)
\* interval multipliers that are not positive, and a unit longer than a second
ZeroInterval == <<Some("s"), 0>>
NegativeInterval == <<Some("s"), 0 - 1>>
EveryMinute == <<Some("m"), 1>>

\* the clock reaches rotate_at when that lies beyond the ticks taken one by one
Idle ==
    /\ lg.active /\ ~IsNone(lg.with_rotation_time)
    /\ res.exc # "Hang"
    /\ lg.interval > MaxTime
    /\ now < lg.rotate_at
    /\ now' = lg.rotate_at
    /\ UNCHANGED <<lg, written, res, hist, th>>

NextRot ==
    \/ Next
    \/ Idle

InitRot == InitWith(<< <<Unsegmented, ZeroInterval, 1>>,
                       <<Unsegmented, NegativeInterval, 1>>,
                       <<Unsegmented, EveryMinute, 1>>,
                       <<Unsegmented, EveryTwoSeconds, 1>> >>)

SpecRot == InitRot /\ [][NextRot]_vars

\* C13: no call on a Logger that was constructed with rotation enabled
\* runs a rotation whose catch-up loop never ends (an interval that is not
\* positive being rejected at construction).
C13_CatchUpTerminates == res.exc # "Hang"

\* the dataset timestamps of the accumulators of a ProfileSet
TimestampsOf(ps) ==
    { The(ps.full_profile).ts : x \in { x \in {1} : ~IsNone(ps.full_profile) } }
    \cup { ps.segmented_profiles[i].prof.ts : i \in 1..Len(ps.segmented_profiles) }

\* C14: at a rotation triggered by the clock (no call having passed
\* segmentation options), every accumulator handed to a writer carries as
\* dataset timestamp the start of the window that closed, rotate_at -
\* interval as they were before the rotation, and so does every accumulator
\* of the retired ProfileSet the Logger still holds.
C14_StampedWithWindowStart ==
    [][ (Call /\ Ingestion /\ lg.active /\ Due /\ ~hist'.opts) =>
            /\ \A i \in 1..Len(Appended) :
                  ~IsNone(Appended[i].prof) =>
                      The(Appended[i].prof).ts = Some(lg.rotate_at - lg.interval)
            /\ Rotated =>
                  LET old == Profiles(lg')[Len(Profiles(lg')) - 1]
                  IN ~IsNone(old) =>
                        TimestampsOf(The(old)) \subseteq {Some(lg.rotate_at - lg.interval)}
      ]_vars

\* C15: a rotation triggered by the clock moves rotate_at along the grid of
\* its previous value: the new rotate_at is the old one plus k intervals
\* for the smallest k >= 1 that puts it beyond the clock value the rotation
\* read.
C15_RotateAtOnGrid ==
    [][ (Call /\ Ingestion /\ Due /\ Rotated /\ lg.interval > 0) =>
            /\ lg'.rotate_at > now'
            /\ lg'.rotate_at >= lg.rotate_at + lg.interval
            /\ (lg'.rotate_at - lg.rotate_at) % lg.interval = 0
            /\ lg'.rotate_at - lg.interval <= now'
      ]_vars

\* a step log(feature_name=..., value=...) on an active Logger, made when no
\* rotation is due and no call has passed segmentation options
LogsDatum ==
    /\ Call /\ res'.op = "log" /\ lg.active /\ ~Due /\ ~hist'.opts
    /\ IsNone(res'.arg[1]) /\ ~IsNone(res'.arg[2])

\* C16: segmented by keys, a log of one value for a feature that is not a
\* configured key completes without error, creates no segment accumulator,
\* and every segment accumulator of the active ProfileSet observes the
\* value once.
C16_DatumToEverySegment ==
    [][ ( /\ LogsDatum /\ lg.segment_type = "keys"
          /\ \A i \in 1..Len(lg.segments) : lg.segments[i] # The(res'.arg[2]) ) =>
            LET old == Current(lg).segmented_profiles
                new == Current(lg').segmented_profiles
            IN /\ res'.exc = "none"
               /\ Len(new) = Len(old)
               /\ \A i \in 1..Len(old) :
                     new[i] = [old[i] EXCEPT
                                 !.prof = track_datum(@, The(res'.arg[2]), res'.arg[3])]
      ]_vars

\* the segment a log of one value is addressed to
DatumSegment == <<Tag(The(res'.arg[2]), res'.arg[3])>>

\* the step logs one value for a configured segment: the only configured
\* key, or a configured fixed segment
AddressedToSegment ==
    /\ LogsDatum
    /\ \/ lg.segment_type = "keys" /\ lg.segments = <<The(res'.arg[2])>>
       \/ lg.segment_type = "set"
          /\ \E i \in 1..Len(lg.segments) : lg.segments[i] = DatumSegment

\* C17: a log of one value addressed to a configured segment does not fail
\* and does not drop the value, whether or not the segment has an
\* accumulator yet: afterwards the active ProfileSet holds an accumulator
\* under the segment's fingerprint, created in that set and tagged with the
\* serialised segment, whose last observation is the value.
C17_SegmentCreatedOnFirstData ==
    [][ AddressedToSegment =>
            /\ res'.exc = "none"
            /\ LET got == get_segment(lg', DatumSegment)
               IN /\ ~IsNone(got)
                  /\ The(got).set = Current(lg').id
                  /\ The(got).tag = Some(json_dumps(DatumSegment))
                  /\ The(got).obs # << >>
                  /\ Last(The(got).obs) =
                        Last(track_datum(The(got), The(res'.arg[2]), res'.arg[3]).obs)
      ]_vars

\* the row holds, in every key column of the segment, the segment's value
RowMatches(row, segment) ==
    \A k \in 1..Len(segment) :
        segment[k].key \in DOMAIN row /\ row[segment[k].key] = segment[k].value

\* the accumulator is stored under the fingerprint of a configured segment,
\* and it holds nothing but non-empty tables of rows matching that segment
HoldsRowsOfConfigured(l, entry) ==
    \E i \in 1..Len(l.segments) :
        /\ entry.hash = hash_segment(SortByKey(l.segments[i]))
        /\ \A t \in 1..Len(entry.prof.obs) :
              /\ entry.prof.obs[t] # << >>
              /\ \A r \in 1..Len(entry.prof.obs[t]) :
                    RowMatches(entry.prof.obs[t][r], l.segments[i])

\* C18: under fixed segments, never changed by a call, after a batch is
\* ingested every segment accumulator of the active ProfileSet is stored
\* under the fingerprint of a configured segment and holds only rows
\* matching it, a configured segment absent from the batch getting nothing;
\* and when the Logger was constructed with profile_full_dataset the full
\* accumulator records the whole batch, the rows matching no segment
\* included.
C18_FixedSegmentsOnly ==
    [][ ( /\ Call /\ res'.op = "log_dataframe" /\ lg.active /\ ~hist'.opts
          /\ lg.segment_type = "set" /\ res'.exc = "none" ) =>
            LET cur == Current(lg')
            IN /\ \A i \in 1..Len(cur.segmented_profiles) :
                     HoldsRowsOfConfigured(lg', cur.segmented_profiles[i])
               /\ hist.full =>
                     /\ ~IsNone(cur.full_profile)
                     /\ The(cur.full_profile).obs # << >>
                     /\ Last(The(cur.full_profile).obs) = res'.arg[1]
      ]_vars

\* a ProfileSet with the dataset timestamps of its accumulators blanked
Unstamped(ps) ==
    [ps EXCEPT
        !.full_profile = IF IsNone(@) THEN @ ELSE Some([The(@) EXCEPT !.ts = None]),
        !.segmented_profiles = [i \in 1..Len(@) |-> [@[i] EXCEPT !.prof.ts = None]]]

\* C19: an active Logger has one active ProfileSet, the last of its list,
\* and a call changes no other: every retired set is afterwards as it was
\* or released, and the set a call retires is afterwards as it was before
\* the call but for the rewritten timestamps, or released.
C19_RetiredSetsFrozen ==
    [][ (Call /\ lg.active /\ ~IsNone(lg'.profiles)) =>
            LET old == Profiles(lg)
                new == Profiles(lg')
            IN /\ lg'.active => (new # << >> /\ ~IsNone(Last(new)))
               /\ \A i, j \in 1..Len(new) :
                     (i < j /\ ~IsNone(new[i]) /\ ~IsNone(new[j])) =>
                         The(new[i]).id < The(new[j]).id
               /\ \A i \in 1..(Len(old) - 1) :
                     i <= Len(new) => (IsNone(new[i]) \/ new[i] = old[i])
               /\ (Rotated /\ Len(old) <= Len(new)) =>
                     \/ IsNone(new[Len(old)])
                     \/ Unstamped(The(new[Len(old)])) = Unstamped(The(old[Len(old)]))
      ]_vars

\* an ingestion call wrote to the active ProfileSet while the Logger held a
\* retired one with data in it
C19_Witness ==
    /\ lg.active /\ Len(Profiles(lg)) = 2 /\ ~IsNone(Profiles(lg)[1])
    /\ res.op = "log_dataframe" /\ res.active /\ ~res.due /\ res.exc = "none"
    /\ res.set = 2
    /\ The(The(Profiles(lg)[1]).full_profile).obs # << >>
    /\ The(Current(lg).full_profile).obs # << >>

(***************************** failed writes in a rotation *****************)
\* the step ran _rotate_time, from an ingestion call that found rotation due
\* or from close, and one of the flush's writes failed to deliver
RotationFailed ==
    /\ Call /\ lg.active /\ ~IsNone(lg.with_rotation_time)
    /\ (Ingestion /\ Due) \/ res'.op = "close"
    /\ WriteFailed

\* the last call was such a rotation, and no call has been made since
AfterFailedRotation ==
    /\ res.exc = "SinkError" /\ res.active /\ ~IsNone(lg.with_rotation_time)
    /\ res.op \in {"log", "log_dataframe", "log_csv", "log_image", "close"}

\* the writes of the active ProfileSet under its window's suffix that were
\* delivered: no flush but the one of a rotation passes a time suffix
Delivered ==
    { i \in 1..Len(written) :
         /\ written[i].ok
         /\ written[i].set = Current(lg).id
         /\ written[i].suffix.time = WindowSuffix }

\* C21: a write that raises during a rotation abandons it: the call raises,
\* the same ProfileSet stays active with nothing changed but the rewritten
\* timestamps, no ProfileSet is installed and rotate_at is as it was; after
\* an ingestion call that failed so, rotation is still due; and the next
\* ingestion call that finds rotation due rotates, issuing again, for the
\* same accumulator and with the same suffix, every write that was
\* delivered before the failure.
C21_FailedRotationRepeats ==
    [][ /\ RotationFailed =>
            /\ res'.exc = "SinkError"
            /\ lg' = Restamp(lg, The(WindowSuffix))
            /\ Current(lg').id = Current(lg).id
            /\ lg'.rotate_at = lg.rotate_at
            /\ ~Rotated
            /\ Ingestion => Due'
        /\ (AfterFailedRotation /\ res.op # "close") => (lg.active /\ Due)
        /\ (AfterFailedRotation /\ Call /\ Ingestion /\ Due) =>
            /\ Rotated
            /\ \A i \in Delivered :
                  \E j \in 1..Len(Appended) : Appended[j] = written[i]
      ]_vars

\* an ingestion call has rotated and delivered, to the same writer and with
\* the same suffix, an accumulator that was delivered once before, in a
\* flush whose next write failed
C21_Witness ==
    /\ res.op \in {"log", "log_dataframe", "log_csv", "log_image"}
    /\ res.active /\ res.due /\ lg.active
    /\ \E i, k \in 1..Len(written) :
          /\ i + 1 < k
          /\ written[i].ok /\ ~IsNone(written[i].suffix.time)
          /\ ~written[i + 1].ok /\ ~IsNone(written[i + 1].prof)
          /\ written[i + 1].set = written[i].set
          /\ written[k] = written[i]
          /\ written[i].set = res.set
          /\ Current(lg).id > res.set

(***************************** overlapping calls ***************************)
\* Two threads call log_dataframe(df) on one Logger, each with a table of
\* its own. The Logger holds no lock: a thread is preempted between
\* should_rotate and _rotate_time's reads, after the flush, after the new
\* ProfileSet is installed, and before the tracking. th.atomic says whether
\* the callers wrap each call in a mutual-exclusion boundary of their own;
\* th.owner is the thread inside it. th.time and th.start are the locals
\* current_time and log_datetime of a thread's _rotate_time.
Threads == {1, 2}

ThreadData(t) == IF t = 1 THEN <<R_US>> ELSE <<R_EU>>

\* _rotate_time up to and including self.flush(rotation_suffix)
RotateFlush(f, log_datetime) ==
    flush([f EXCEPT !.lg = Restamp(f.lg, log_datetime)], Some(log_datetime))

\* _rotate_time after the flush: release, install, compute new rotate_at
RotateInstall(f, current_time) ==
    Advance(intialize_profiles([f EXCEPT !.lg = Evict(f.lg)], Some(ImportTime)),
            current_time)

\* thread t enters log_dataframe: the _active and should_rotate tests, and,
\* when rotation is due, _rotate_time's reads of the clock and of rotate_at
Enter(t) ==
    /\ th.pc[t] = "idle"
    /\ hist.calls < MaxCalls
    /\ lg.active
    /\ th.atomic => th.owner = 0
    /\ th' = [th EXCEPT
                !.owner = t,
                !.pc[t] = IF Due THEN "flush" ELSE "track",
                !.time[t] = now,
                !.start[t] = IF Due THEN Bucket(lg.rotate_at - lg.interval,
                                                The(lg.with_rotation_time))
                             ELSE 0]
    /\ hist' = [hist EXCEPT !.calls = @ + 1]
    /\ UNCHANGED <<lg, written, now, res>>

FlushBy(t) ==
    /\ th.pc[t] = "flush"
    /\ \E f \in {RotateFlush(Frame(0, 0), th.start[t])} :
          /\ lg' = f.lg
          /\ written' = f.written
    /\ th' = [th EXCEPT !.pc[t] = "install"]
    /\ UNCHANGED <<now, res, hist>>

InstallBy(t) ==
    /\ th.pc[t] = "install"
    /\ \E f \in {RotateInstall(Frame(0, 0), th.time[t])} :
          /\ lg' = f.lg
          /\ hist' = [hist EXCEPT !.nextId = f.nextId]
    /\ th' = [th EXCEPT !.pc[t] = "track"]
    /\ UNCHANGED <<written, now, res>>

\* the rest of log_dataframe; the thread leaves the boundary
TrackBy(t) ==
    /\ th.pc[t] = "track"
    /\ \E f \in {TrackDataframe([Frame(0, 0) EXCEPT !.lg = SetOptions(@, None, FALSE)],
                                ThreadData(t))} :
          lg' = f.lg
    /\ th' = [th EXCEPT !.pc[t] = "idle", !.owner = 0]
    /\ UNCHANGED <<written, now, res, hist>>

ThreadEnters == \E t \in Threads : Enter(t)
ThreadFlushes == \E t \in Threads : FlushBy(t)
ThreadInstalls == \E t \in Threads : InstallBy(t)
ThreadTracks == \E t \in Threads : TrackBy(t)

NextThreads ==
    \/ Tick
    \/ ThreadEnters
    \/ ThreadFlushes
    \/ ThreadInstalls
    \/ ThreadTracks

\* an unsegmented Logger rotating every second, its callers with and
\* without a boundary around each call
InitThreads ==
    /\ now = 1
    /\ \E cs \in {1, 2} : lg = Logger(Config(Unsegmented, EverySecond, cs), now)
    /\ written = << >>
    /\ res = [op |-> "init", arg |-> None, ret |-> None, exc |-> "none",
              active |-> TRUE, due |-> FALSE, set |-> 0]
    /\ hist = [calls |-> 0, nextId |-> 2, disturbed |-> FALSE, failed |-> FALSE,
               flushed |-> FALSE, opts |-> FALSE,
               segmented |-> FALSE, full |-> FALSE]
    /\ \E a \in BOOLEAN : th = [OneCaller EXCEPT !.atomic = a]

SpecThreads == InitThreads /\ [][NextThreads]_vars

\* the full accumulator of the ProfileSet has been written, and holds more
\* observations than any write of it carried
AppliedAfterWrite(ps) ==
    /\ \E k \in 1..Len(written) : written[k].set = ps.id
    /\ \A k \in 1..Len(written) :
          written[k].set = ps.id =>
              Len(The(ps.full_profile).obs) > Len(The(written[k].prof).obs)

\* C20: when each call's check-and-update runs as one atomic step, no
\* ProfileSet ever holds an observation applied after the set was written
\* to the writers. (That such a state is reachable without the boundary is
\* what C20_Witness states.)
C20_AtomicCallsLoseNothing ==
    th.atomic =>
        \A i \in 1..Len(Profiles(lg)) :
            ~IsNone(Profiles(lg)[i]) => ~AppliedAfterWrite(The(Profiles(lg)[i]))

\* without the boundary: both threads have returned, and a retired
\* ProfileSet holds an observation that no write of it carried
C20_Witness ==
    /\ ~th.atomic
    /\ th.pc = <<"idle", "idle">>
    /\ \E i \in 1..(Len(Profiles(lg)) - 1) :
          ~IsNone(Profiles(lg)[i]) /\ AppliedAfterWrite(The(Profiles(lg)[i]))

====
